---- MODULE Spec2Model ----
(***************************************************************************)
(* NFA fragments, graph-walk matching, NFA/DFA transition tables (subset   *)
(* construction) and DFA minimization of sajid-haniff/compilers:           *)
(*   src/NFA.js, src/NFA-DFA-RegExp.js, src/dfa-minimization.js            *)
(*                                                                         *)
(* JS Sets and Maps iterate in insertion order, so they are modelled as    *)
(* duplicate-free sequences.  A state object is its index in `heap`.       *)
(***************************************************************************)
EXTENDS Naturals, Sequences, FiniteSets, TLC

\* ------------------------------------------------------------------ bounds
MaxStates == 8      \* State objects one run allocates
MaxLen == 2         \* length of a string handed to matches
MaxCalls == 1       \* graph-walk matches calls in one run
MaxStatesDFA == 10  \* State objects one run of SpecDFA allocates
MaxId == 3          \* largest state id of a table handed to minimize
MaxRuns == 2        \* minimize calls in one run
MaxNodes == 2       \* states of a hand-built graph (SpecGraph)
MaxEdges == 3       \* addTransition calls on a hand-built graph (SpecGraph)

\* The symbol of an epsilon transition (the source's 'ε').
EPSILON == "eps"
\* Input symbols.
Sigma == {"a", "b"}
\* The one letter of the fragments of SpecDFA.
Letter == "a"

NFA_JS == "NFA.js"
REGEXP_JS == "NFA-DFA-RegExp.js"

VARIABLES
  file,        \* which source file's classes and combinators the run uses
  heap,        \* the State objects: accepting flag and _transitions map
  frags,       \* the NFA fragments built and not yet used as an operand
  exprs,       \* history: the expression each fragment of frags was built as
  nfaCalls,    \* how many graph-walk matches calls the run has made
  nfaLast,     \* history: the last graph-walk matches call, with its result
  nfa,         \* NFA._transitionTable and what its build caches; <<>> before
  dfaPc,       \* DFA.getTransitionTable: "idle", in its "loop", or "done"
  dfa,         \* the DFA's start label, table, accepting labels and worklist
  dfaLast,     \* history: the last table-driven matches call, with its result
  table,       \* dfa-minimization.js: the module's table
  currentTransitionMap,  \* dfa-minimization.js: the module's id -> class map
  minRuns,     \* how many minimize calls the run has made
  minLast      \* history: the last minimize call, with its outcome

vars == <<file, heap, frags, exprs, nfaCalls, nfaLast, nfa, dfaPc, dfa, dfaLast,
         table, currentTransitionMap, minRuns, minLast>>
fragVars == <<file, heap, frags, exprs, nfaCalls, nfaLast>>
minVars == <<table, currentTransitionMap, minRuns, minLast>>
tableVars == <<nfa, dfaPc, dfa, dfaLast>>

\* ------------------------------------------------------------------ helpers
Range(s) == {s[i] : i \in DOMAIN s}

RECURSIVE SeqsUpTo(_, _)
SeqsUpTo(S, n) ==
  IF n = 0 THEN {<<>>}
  ELSE LET shorter == SeqsUpTo(S, n - 1)
       IN shorter \cup {Append(s, x) : s \in {t \in shorter : Len(t) = n - 1}, x \in S}

Strings == SeqsUpTo(Sigma, MaxLen)

\* Set.add on an insertion-ordered set.
SetAdd(s, x) == IF x \in Range(s) THEN s ELSE Append(s, x)

RECURSIVE SetAddAll(_, _)
SetAddAll(s, xs) ==
  IF xs = <<>> THEN s ELSE SetAddAll(SetAdd(s, Head(xs)), Tail(xs))

\* ------------------------------------------------------------------ State
\* new State({accepting})
NewState(accepting) == [accepting |-> accepting, transitions |-> <<>>]

\* Position of symbol among the keys of a state's _transitions map, 0 if absent.
KeyIndex(st, symbol) ==
  IF \E i \in DOMAIN st.transitions : st.transitions[i].symbol = symbol
  THEN CHOOSE i \in DOMAIN st.transitions : st.transitions[i].symbol = symbol
  ELSE 0

\* getTransitionsOnSymbol, its effect: a missing key is created with an empty set.
TouchSymbol(h, s, symbol) ==
  IF KeyIndex(h[s], symbol) # 0 THEN h
  ELSE [h EXCEPT ![s].transitions = Append(@, [symbol |-> symbol, to |-> <<>>])]

\* getTransitionsOnSymbol, its value: the set of targets on symbol.
getTransitionsOnSymbol(h, s, symbol) ==
  LET i == KeyIndex(h[s], symbol) IN IF i = 0 THEN <<>> ELSE h[s].transitions[i].to

\* addTransition(symbol, toState)
addTransition(h, s, symbol, toState) ==
  LET h1 == TouchSymbol(h, s, symbol)
      i == KeyIndex(h1[s], symbol)
  IN [h1 EXCEPT ![s].transitions[i].to = SetAdd(@, toState)]

setAccepting(h, s, b) == [h EXCEPT ![s].accepting = b]

\* ------------------------------------------------------------------ matches
\* State.matches(string, visited): the result r, the visited set v as the call
\* leaves it, and the heap h with the keys getTransitionsOnSymbol created.
RECURSIVE matches(_, _, _, _), matchesAny(_, _, _, _, _, _)

\* matchesAny with the caller's visited set handed on after a consumed symbol too.
matchesAnyOneGuard(h, targets, i, string, visited, shared) ==
  IF i > Len(targets) THEN [r |-> FALSE, v |-> visited, h |-> h]
  ELSE
    LET call == matches(h, targets[i], string, visited)
    IN IF call.r THEN [r |-> TRUE, v |-> call.v, h |-> call.h]
       ELSE matchesAny(call.h, targets, i + 1, string, call.v, shared)

matches(h, s, string, visited) ==
  IF s \in visited THEN [r |-> FALSE, v |-> visited, h |-> h]
  ELSE
    LET v1 == visited \cup {s} IN
    IF Len(string) = 0 THEN
      IF h[s].accepting THEN [r |-> TRUE, v |-> v1, h |-> h]
      ELSE LET h1 == TouchSymbol(h, s, EPSILON)
           IN matchesAny(h1, getTransitionsOnSymbol(h1, s, EPSILON), 1, string, v1, TRUE)
    ELSE
      LET symbol == Head(string)
          rest == Tail(string)
          h1 == TouchSymbol(h, s, symbol)
          onSymbol == matchesAny(h1, getTransitionsOnSymbol(h1, s, symbol), 1, rest, v1, FALSE)
      IN IF onSymbol.r THEN onSymbol
         ELSE LET h2 == TouchSymbol(onSymbol.h, s, EPSILON)
              IN matchesAny(h2, getTransitionsOnSymbol(h2, s, EPSILON), 1, string, v1, TRUE)

\* The for-loops of matches over a transition set: shared = TRUE passes the
\* caller's visited set on (epsilon steps), FALSE lets each call start with
\* its default, a new empty set (a consumed symbol).
matchesAny(h, targets, i, string, visited, shared) ==
  IF i > Len(targets) THEN [r |-> FALSE, v |-> visited, h |-> h]
  ELSE
    LET call == matches(h, targets[i], string, IF shared THEN visited ELSE {})
        v1 == IF shared THEN call.v ELSE visited
    IN IF call.r THEN [r |-> TRUE, v |-> v1, h |-> call.h]
       ELSE matchesAny(call.h, targets, i + 1, string, v1, shared)

\* ------------------------------------------------------------------ combinators
\* Each returns the heap and the new fragment.
char(h, c) ==
  LET inState == Len(h) + 1
      outState == Len(h) + 2
      h1 == h \o <<NewState(FALSE), NewState(TRUE)>>
  IN [h |-> addTransition(h1, inState, c, outState),
      nfa |-> [in |-> inState, out |-> outState]]

e(h) == char(h, EPSILON)

altPair(h, first, second) ==
  LET h1 == setAccepting(h, first.out, FALSE)
      h2 == setAccepting(h1, second.out, TRUE)
      h3 == addTransition(h2, first.out, EPSILON, second.in)
  IN [h |-> h3, nfa |-> [in |-> first.in, out |-> second.out]]

\* orPair of src/NFA.js: the operands' out states keep their accepting flag.
orPairNFA(h, first, second) ==
  LET inState == Len(h) + 1
      outState == Len(h) + 2
      h1 == h \o <<NewState(FALSE), NewState(FALSE)>>
      h2 == addTransition(h1, inState, EPSILON, first.in)
      h3 == addTransition(h2, inState, EPSILON, second.in)
      h4 == setAccepting(h3, outState, TRUE)
      h5 == addTransition(h4, first.out, EPSILON, outState)
      h6 == addTransition(h5, second.out, EPSILON, outState)
  IN [h |-> h6, nfa |-> [in |-> inState, out |-> outState]]

\* orPair of src/NFA-DFA-RegExp.js.
orPairRegExp(h, first, second) ==
  LET inState == Len(h) + 1
      outState == Len(h) + 2
      h1 == h \o <<NewState(FALSE), NewState(FALSE)>>
      h2 == addTransition(h1, inState, EPSILON, first.in)
      h3 == addTransition(h2, inState, EPSILON, second.in)
      h4 == setAccepting(h3, outState, TRUE)
      h5 == setAccepting(h4, first.out, FALSE)
      h6 == setAccepting(h5, second.out, FALSE)
      h7 == addTransition(h6, first.out, EPSILON, outState)
      h8 == addTransition(h7, second.out, EPSILON, outState)
  IN [h |-> h8, nfa |-> [in |-> inState, out |-> outState]]

orPair(f, h, first, second) ==
  IF f = NFA_JS THEN orPairNFA(h, first, second) ELSE orPairRegExp(h, first, second)

rep(h, fragment) ==
  LET inState == Len(h) + 1
      outState == Len(h) + 2
      h1 == h \o <<NewState(FALSE), NewState(TRUE)>>
      h2 == addTransition(h1, inState, EPSILON, fragment.in)
      h3 == addTransition(h2, inState, EPSILON, outState)
      h4 == setAccepting(h3, fragment.out, FALSE)
      h5 == addTransition(h4, fragment.out, EPSILON, outState)
      h6 == addTransition(h5, outState, EPSILON, fragment.in)
  IN [h |-> h6, nfa |-> [in |-> inState, out |-> outState]]

\* ------------------------------------------------------------------ epsilon closure
\* The _epsilonClosure memo of every state: <<>> while unset.
NoClosures(h) == [s \in DOMAIN h |-> <<>>]

\* NFAState.getEpsilonClosure() on state s: c.cl are the memos (a closure under
\* construction is already stored, and shared, while its loop runs), c.h the heap.
RECURSIVE getEpsilonClosure(_, _), closureLoop(_, _, _, _)
getEpsilonClosure(c, s) ==
  IF c.cl[s] # <<>> THEN c
  ELSE LET h1 == TouchSymbol(c.h, s, EPSILON)
           c1 == [cl |-> [c.cl EXCEPT ![s] = <<s>>], h |-> h1]
       IN closureLoop(c1, s, getTransitionsOnSymbol(h1, s, EPSILON), 1)

closureLoop(c, s, epsilonTransitions, i) ==
  IF i > Len(epsilonTransitions) THEN c
  ELSE
    LET nextState == epsilonTransitions[i] IN
    IF nextState \in Range(c.cl[s]) THEN closureLoop(c, s, epsilonTransitions, i + 1)
    ELSE
      LET c1 == [c EXCEPT !.cl[s] = Append(@, nextState)]
          c2 == getEpsilonClosure(c1, nextState)
          c3 == [c2 EXCEPT !.cl[s] = SetAddAll(@, c2.cl[nextState])]
      IN closureLoop(c3, s, epsilonTransitions, i + 1)

RECURSIVE closeAll(_, _, _)
closeAll(c, visited, i) ==
  IF i > Len(visited) THEN c
  ELSE closeAll(getEpsilonClosure(c, visited[i]), visited, i + 1)

\* ------------------------------------------------------------------ NFA table
\* visitState of NFA.getTransitionTable: the states in discovery order; a
\* state's number is its position in it.
RECURSIVE visitState(_, _, _), visitSymbols(_, _, _, _), visitTargets(_, _, _, _)
visitState(h, visited, state) ==
  IF state \in Range(visited) THEN visited
  ELSE visitSymbols(h, Append(visited, state), state, 1)

visitSymbols(h, visited, state, k) ==
  IF k > Len(h[state].transitions) THEN visited
  ELSE visitSymbols(h, visitTargets(h, visited, h[state].transitions[k].to, 1), state, k + 1)

visitTargets(h, visited, targets, i) ==
  IF i > Len(targets) THEN visited
  ELSE visitTargets(h, visitState(h, visited, targets[i]), targets, i + 1)

NumberOf(visited, state) == CHOOSE n \in DOMAIN visited : visited[n] = state

Numbers(visited, states) == [i \in DOMAIN states |-> NumberOf(visited, states[i])]

\* One row: every key of the state's map but EPSILON (deleted), with the target
\* numbers, and the closure column.
TableRow(h, visited, cl, state) ==
  LET NotEpsilon(t) == t.symbol # EPSILON
      keys == SelectSeq(h[state].transitions, NotEpsilon)
  IN [trans |-> [k \in DOMAIN keys |->
                   [symbol |-> keys[k].symbol, to |-> Numbers(visited, keys[k].to)]],
      closure |-> Numbers(visited, cl[state])]

\* NFA.getTransitionTable(): table, accepting state numbers, and the heap.
nfaGetTransitionTable(h, inState) ==
  LET visited == visitState(h, <<>>, inState)
      c == closeAll([cl |-> NoClosures(h), h |-> h], visited, 1)
      IsAccepting(state) == h[state].accepting
  IN [table |-> [n \in DOMAIN visited |-> TableRow(h, visited, c.cl, visited[n])],
      accepting |-> Numbers(visited, SelectSeq(visited, IsAccepting)),
      visited |-> visited,
      closures |-> c.cl,
      h |-> c.h]

\* NFA.getAlphabet(): every key of every row but the closure column.
RECURSIVE nfaGetAlphabet(_, _, _)
nfaGetAlphabet(nfaTable, n, alphabet) ==
  IF n > Len(nfaTable) THEN alphabet
  ELSE nfaGetAlphabet(nfaTable, n + 1,
         SetAddAll(alphabet, [k \in DOMAIN nfaTable[n].trans |-> nfaTable[n].trans[k].symbol]))

\* nfaTable[state][symbol]: the target list, or <<>> standing for undefined.
nfaOnSymbol(nfaTable, state, symbol) ==
  LET row == nfaTable[state].trans
  IN IF \E k \in DOMAIN row : row[k].symbol = symbol
     THEN row[CHOOSE k \in DOMAIN row : row[k].symbol = symbol].to
     ELSE <<>>

\* ------------------------------------------------------------------ DFA
\* A DFA state label is states.join(','): the ids in the order of the list,
\* which is modelled by the list itself (join is one-to-one on lists of ids).
EmptyMap == [x \in {} |-> <<>>]

MapPut(m, k, v) == [x \in DOMAIN m \cup {k} |-> IF x = k THEN v ELSE m[x]]

\* The NFA states reached from `states` on symbol, each with its closure
\* column, in push order without duplicates ([...new Set(onSymbol)]).
RECURSIVE pushClosures(_, _, _, _), pushOnSymbol(_, _, _, _, _)
pushClosures(nfaTable, nfaStatesOnSymbol, j, onSymbol) ==
  IF j > Len(nfaStatesOnSymbol) THEN onSymbol
  ELSE pushClosures(nfaTable, nfaStatesOnSymbol, j + 1,
         IF nfaStatesOnSymbol[j] \in DOMAIN nfaTable
         THEN SetAddAll(onSymbol, nfaTable[nfaStatesOnSymbol[j]].closure)
         ELSE onSymbol)

pushOnSymbol(nfaTable, states, i, symbol, onSymbol) ==
  IF i > Len(states) THEN onSymbol
  ELSE pushOnSymbol(nfaTable, states, i + 1, symbol,
         pushClosures(nfaTable, nfaOnSymbol(nfaTable, states[i], symbol), 1, onSymbol))

\* dfaOnSymbol without the unshift: the successor label is recorded, never queued.
dfaOnSymbolNoEnqueue(d, nfaTable, nfaAccepting, states, symbol) ==
  LET dfaStatesOnSymbol == pushOnSymbol(nfaTable, states, 1, symbol, <<>>)
      isAccepting == Range(nfaAccepting) \cap Range(dfaStatesOnSymbol) # {}
  IN IF Len(dfaStatesOnSymbol) > 0
     THEN [table |-> MapPut(d.table, states, MapPut(d.table[states], symbol, dfaStatesOnSymbol)),
           accepting |-> IF isAccepting THEN d.accepting \cup {dfaStatesOnSymbol}
                         ELSE d.accepting,
           worklist |-> d.worklist]
     ELSE d

\* The body of alphabet.forEach for one symbol, on d = the DFA table, the
\* accepting labels and the worklist.
dfaOnSymbol(d, nfaTable, nfaAccepting, states, symbol) ==
  LET dfaStatesOnSymbol == pushOnSymbol(nfaTable, states, 1, symbol, <<>>)
      isAccepting == Range(nfaAccepting) \cap Range(dfaStatesOnSymbol) # {}
  IN IF Len(dfaStatesOnSymbol) > 0
     THEN [table |-> MapPut(d.table, states, MapPut(d.table[states], symbol, dfaStatesOnSymbol)),
           accepting |-> IF isAccepting THEN d.accepting \cup {dfaStatesOnSymbol}
                         ELSE d.accepting,
           worklist |-> IF dfaStatesOnSymbol \in DOMAIN d.table THEN d.worklist
                        ELSE <<dfaStatesOnSymbol>> \o d.worklist]
     ELSE d

RECURSIVE dfaForEachSymbol(_, _, _, _, _, _)
dfaForEachSymbol(d, nfaTable, nfaAccepting, alphabet, k, states) ==
  IF k > Len(alphabet) THEN d
  ELSE dfaForEachSymbol(dfaOnSymbol(d, nfaTable, nfaAccepting, states, alphabet[k]),
                        nfaTable, nfaAccepting, alphabet, k + 1, states)

\* One pass of the while loop of DFA.getTransitionTable.
dfaLoopBody(d, nfaTable, nfaAccepting) ==
  LET states == Head(d.worklist)
      d1 == [d EXCEPT !.worklist = Tail(@), !.table = MapPut(@, states, EmptyMap)]
  IN dfaForEachSymbol(d1, nfaTable, nfaAccepting, nfaGetAlphabet(nfaTable, 1, <<>>), 1, states)

\* DFA.matches(string): the boolean, or error when table[state] is undefined.
RECURSIVE dfaMatches(_, _, _, _)
dfaMatches(d, state, string, i) ==
  IF i > Len(string)
  THEN [result |-> state \in d.accepting, error |-> FALSE]
  ELSE IF state \notin DOMAIN d.table THEN [result |-> FALSE, error |-> TRUE]
  ELSE IF string[i] \notin DOMAIN d.table[state] THEN [result |-> FALSE, error |-> FALSE]
  ELSE dfaMatches(d, d.table[state][string[i]], string, i + 1)

\* ------------------------------------------------------------------ DFA minimization
\* src/dfa-minimization.js.  A table maps ids to rows, a row maps symbols to
\* target ids; a class (a JS Set of ids) is its members in insertion order.
\* The classes of one round are disjoint, so a class object is identified by
\* its members.
accepting == <<2, 3>>
alphabet == <<"a", "b">>

\* Object.keys on integer-like keys: ascending.
RECURSIVE SortedSeq(_)
SortedSeq(S) ==
  IF S = {} THEN <<>>
  ELSE LET m == CHOOSE x \in S : \A y \in S : x <= y
       IN <<m>> \o SortedSeq(S \ {m})

\* set[symbol] on a Set object: a Set has no property named by a symbol.
SetProperty(set, symbol) == "undefined"

goToSameSet(s1, s2, symbol, ctm) ==
  IF s1 \notin DOMAIN ctm \/ s2 \notin DOMAIN ctm THEN FALSE
  ELSE SetProperty(ctm[s1], symbol) = SetProperty(ctm[s2], symbol)

areEquivalent(s1, s2, ctm) ==
  \A k \in DOMAIN alphabet : goToSameSet(s1, s2, alphabet[k], ctm)

\* sameRow(r1, r2): the rows are compared class by class, in position, by
\* their sorted, joined members (one-to-one on sets of ids).
sameRow(r1, r2) ==
  /\ Len(r1) = Len(r2)
  /\ \A i \in DOMAIN r1 : Len(r1[i]) = Len(r2[i]) /\ Range(r1[i]) = Range(r2[i])

\* The restSets loop over one class: handledStates maps each handled id to
\* its new class.
RECURSIVE restSets(_, _, _, _)
restSets(handledStates, set, i, ctm) ==
  IF i > Len(set) THEN handledStates
  ELSE
    LET state == set[i]
        equivalent == {k \in DOMAIN handledStates : areEquivalent(state, k, ctm)}
    IN IF equivalent # {}
       THEN LET handledState == CHOOSE k \in equivalent : \A j \in equivalent : k <= j
                class == handledStates[handledState]
            IN restSets([x \in DOMAIN handledStates \cup {state} |->
                           IF x = state \/ handledStates[x] = class
                           THEN Append(class, state) ELSE handledStates[x]],
                        set, i + 1, ctm)
       ELSE restSets(MapPut(handledStates, state, <<state>>), set, i + 1, ctm)

\* for (const set of current): Object.assign(newTransitionMap, handledStates).
RECURSIVE newMap(_, _, _, _)
newMap(newTransitionMap, current, n, ctm) ==
  IF n > Len(current) THEN newTransitionMap
  ELSE LET first == current[n][1]
           handledStates == restSets(MapPut(EmptyMap, first, <<first>>), current[n], 2, ctm)
       IN newMap([x \in DOMAIN newTransitionMap \cup DOMAIN handledStates |->
                    IF x \in DOMAIN handledStates THEN handledStates[x]
                    ELSE newTransitionMap[x]],
                 current, n + 1, ctm)

\* new Set(Object.keys(newTransitionMap).map(...)): the classes, each once,
\* in the order of their smallest id.
newSets(newTransitionMap) ==
  LET keys == SortedSeq(DOMAIN newTransitionMap)
  IN SetAddAll(<<>>, [k \in DOMAIN keys |-> newTransitionMap[keys[k]]])

\* The while loop: the final row of classes and the final currentTransitionMap.
RECURSIVE refine(_, _, _, _)
refine(current, previous, hasPrevious, ctm) ==
  IF hasPrevious /\ sameRow(current, previous) THEN [current |-> current, ctm |-> ctm]
  ELSE LET newTransitionMap == newMap(EmptyMap, current, 1, ctm)
       IN refine(newSets(newTransitionMap), current, TRUE, newTransitionMap)

ClassIndex(current, class) ==
  IF \E n \in DOMAIN current : current[n] = class
  THEN CHOOSE n \in DOMAIN current : current[n] = class
  ELSE 0

\* The row of one class in the minimized table; 0 stands for undefined.
minimizedRow(tbl, current, ctm, set) ==
  LET originalState == set[1]
      symbols == {alphabet[k] : k \in DOMAIN alphabet} \cap
                 {a \in DOMAIN tbl[originalState] : tbl[originalState][a] # 0}
  IN [a \in symbols |->
        LET originalTransition == tbl[originalState][a]
        IN IF originalTransition \in DOMAIN ctm
           THEN ClassIndex(current, ctm[originalTransition])
           ELSE 0]

\* minimize(table) entered with currentTransitionMap = ctm0: the final classes,
\* the map it leaves, and the table it returns or the TypeError it throws
\* (table[originalState] undefined at line 142).
minimize(tbl, ctm0) ==
  LET allStates == SortedSeq(DOMAIN tbl)
      NotAccepting(state) == state \notin Range(accepting)
      nonAccepting == SelectSeq(allStates, NotAccepting)
      ctm1 == [x \in DOMAIN ctm0 \cup DOMAIN tbl |->
                 IF x \in DOMAIN tbl
                 THEN IF x \in Range(accepting) THEN accepting ELSE nonAccepting
                 ELSE ctm0[x]]
      NonEmpty(set) == Len(set) > 0
      final == refine(SelectSeq(<<nonAccepting, accepting>>, NonEmpty), <<>>, FALSE, ctm1)
      current == final.current
      throws == \E n \in DOMAIN current : current[n][1] \notin DOMAIN tbl
  IN [input |-> tbl,
      current |-> current,
      ctm |-> final.ctm,
      error |-> throws,
      minimized |-> IF throws THEN EmptyMap
                    ELSE [idx \in DOMAIN current |->
                            minimizedRow(tbl, current, final.ctm, current[idx])]]

\* ------------------------------------------------------------------ reference
\* The strings of length <= MaxLen in the regular language of an expression.
ConcatLang(L1, L2) == {x \o y : x \in L1, y \in L2} \cap Strings

RECURSIVE StarLang(_, _, _)
StarLang(S, L, n) ==
  IF n = 0 THEN S ELSE StarLang(S \cup ConcatLang(S, L), L, n - 1)

RECURSIVE Lang(_)
Lang(ex) ==
  CASE ex[1] = "char" -> {<<ex[2]>>} \cap Strings
    [] ex[1] = "e" -> {<<>>}
    [] ex[1] = "alt" -> ConcatLang(Lang(ex[2]), Lang(ex[3]))
    [] ex[1] = "or" -> Lang(ex[2]) \cup Lang(ex[3])
    [] ex[1] = "rep" -> StarLang({<<>>}, Lang(ex[2]), MaxLen)

\* The states a walk from s can reach over any edges.
RECURSIVE ReachFrom(_, _)
ReachFrom(h, S) ==
  LET Succ(s) == UNION {Range(h[s].transitions[i].to) : i \in DOMAIN h[s].transitions}
      next == S \cup UNION {Succ(s) : s \in S}
  IN IF next = S THEN S ELSE ReachFrom(h, next)

Accepting(h, S) == {s \in S : h[s].accepting}

\* C2: a graph-walk matches call returns TRUE exactly for the strings of the
\* regular language of the expression the fragment was built as.
C2_MatchesIsLanguage ==
  \A i \in DOMAIN nfaLast :
    nfaLast[i].result = (nfaLast[i].string \in Lang(exprs[1]))

C2_RegExpOnly == file = REGEXP_JS => C2_MatchesIsLanguage

\* The states reachable from S over epsilon edges only.
RECURSIVE EpsilonReach(_, _)
EpsilonReach(h, S) ==
  LET next == S \cup UNION {Range(getTransitionsOnSymbol(h, s, EPSILON)) : s \in S}
  IN IF next = S THEN S ELSE EpsilonReach(h, next)

NoDuplicates(s) == \A i, j \in DOMAIN s : s[i] = s[j] => i = j

\* Every label the DFA holds: the start, the rows, the targets, the worklist.
DfaLabels ==
  {dfa.start} \cup DOMAIN dfa.table \cup Range(dfa.worklist)
    \cup UNION {{dfa.table[l][a] : a \in DOMAIN dfa.table[l]} : l \in DOMAIN dfa.table}

\* C1: a graph-walk matches call and a table-driven matches call on the same
\* string return the same boolean.
C1_NfaDfaAgree ==
  \A i \in DOMAIN nfaLast, j \in DOMAIN dfaLast :
    nfaLast[i].string = dfaLast[j].string
      => /\ ~dfaLast[j].error
         /\ nfaLast[i].result = dfaLast[j].result

\* C4: with the table built, a row's label is in the accepting labels exactly
\* when its ids include an accepting NFA id, and matches("") says whether the
\* start label's ids do.
C4_AcceptingLabels ==
  dfaPc = "done" =>
    /\ \A l \in DOMAIN dfa.table :
         (l \in dfa.accepting) = (Range(l) \cap Range(nfa[1].accepting) # {})
    /\ \A j \in DOMAIN dfaLast :
         dfaLast[j].string = <<>> =>
           dfaLast[j].result = (Range(dfa.start) \cap Range(nfa[1].accepting) # {})

\* C8: the memoised closure of every state is the state and all the states
\* epsilon edges lead to from it, each once.
C8_ClosureExact ==
  nfa # <<>> =>
    \A s \in Range(nfa[1].visited) :
      /\ Range(nfa[1].closures[s]) = EpsilonReach(heap, {s})
      /\ NoDuplicates(nfa[1].closures[s])

\* C9: two labels of the DFA are equal exactly when their id sets are equal.
C9_CanonicalLabels ==
  \A l1, l2 \in DfaLabels : (l1 = l2) = (Range(l1) = Range(l2))

\* C10: after every combinator application the only accepting state reachable
\* from a fragment's entry is the fragment's exit.
C10_OneAccepting ==
  \A i \in DOMAIN frags :
    Accepting(heap, ReachFrom(heap, {frags[i].in})) = {frags[i].out}

C10_RegExpOnly == file = REGEXP_JS => C10_OneAccepting


\* ------------------------------------------------------------------ actions
Building == nfaCalls = 0 /\ nfa = <<>> /\ dfaPc = "idle"

Push(res, ex, drop) ==
  /\ heap' = res.h
  /\ frags' = Append(SubSeq(frags, 1, Len(frags) - drop), res.nfa)
  /\ exprs' = Append(SubSeq(exprs, 1, Len(exprs) - drop), ex)

Char(c, max) ==
  /\ Building
  /\ Len(heap) + 2 <= max
  /\ Push(char(heap, c), <<"char", c>>, 0)
  /\ UNCHANGED <<minVars, file, nfaCalls, nfaLast, tableVars>>

E(max) ==
  /\ Building
  /\ Len(heap) + 2 <= max
  /\ Push(e(heap), <<"e">>, 0)
  /\ UNCHANGED <<minVars, file, nfaCalls, nfaLast, tableVars>>

\* alt(first, second): the two newest fragments, in the order they were built.
Alt ==
  /\ Building
  /\ Len(frags) >= 2
  /\ Push(altPair(heap, frags[Len(frags) - 1], frags[Len(frags)]),
          <<"alt", exprs[Len(exprs) - 1], exprs[Len(exprs)]>>, 2)
  /\ UNCHANGED <<minVars, file, nfaCalls, nfaLast, tableVars>>

Or(max) ==
  /\ Building
  /\ Len(frags) >= 2
  /\ Len(heap) + 2 <= max
  /\ Push(orPair(file, heap, frags[Len(frags) - 1], frags[Len(frags)]),
          <<"or", exprs[Len(exprs) - 1], exprs[Len(exprs)]>>, 2)
  /\ UNCHANGED <<minVars, file, nfaCalls, nfaLast, tableVars>>

Rep(max) ==
  /\ Building
  /\ Len(frags) >= 1
  /\ Len(heap) + 2 <= max
  /\ Push(rep(heap, frags[Len(frags)]), <<"rep", exprs[Len(exprs)]>>, 1)
  /\ UNCHANGED <<minVars, file, nfaCalls, nfaLast, tableVars>>

\* NFA.matches(string) on the one finished fragment.
NFAMatches(string) ==
  /\ Len(frags) = 1
  /\ dfaPc # "loop"
  /\ nfaCalls < MaxCalls
  /\ LET call == matches(heap, frags[1].in, string, {})
     IN /\ heap' = call.h
        /\ nfaLast' = <<[state |-> frags[1].in, string |-> string, result |-> call.r]>>
  /\ nfaCalls' = nfaCalls + 1
  /\ UNCHANGED <<minVars, file, frags, exprs, tableVars>>

\* nfa.getTransitionTable(), first call (later calls return the memo).
NFAGetTransitionTable ==
  /\ file = REGEXP_JS
  /\ Len(frags) = 1
  /\ nfa = <<>>
  /\ LET built == nfaGetTransitionTable(heap, frags[1].in)
     IN /\ nfa' = <<built>>
        /\ heap' = built.h
  /\ UNCHANGED <<minVars, file, frags, exprs, nfaCalls, nfaLast, dfaPc, dfa, dfaLast>>

\* new DFA(nfa).getTransitionTable(), first call, up to the while loop; it is
\* also how the first dfa.matches or getStartingStateNumber call begins.
DFAGetTransitionTable ==
  /\ file = REGEXP_JS
  /\ Len(frags) = 1
  /\ dfaPc = "idle"
  /\ LET built == IF nfa = <<>> THEN nfaGetTransitionTable(heap, frags[1].in) ELSE nfa[1]
         startState == built.table[1].closure
     IN /\ nfa' = <<built>>
        /\ heap' = built.h
        /\ dfa' = [start |-> startState, table |-> EmptyMap, accepting |-> {},
                   worklist |-> <<startState>>]
  /\ dfaPc' = "loop"
  /\ UNCHANGED <<minVars, file, frags, exprs, nfaCalls, nfaLast, dfaLast>>

\* One pass of the worklist loop; the call returns when the worklist is empty.
DFALoop ==
  /\ dfaPc = "loop"
  /\ LET d == dfaLoopBody([table |-> dfa.table, accepting |-> dfa.accepting,
                           worklist |-> dfa.worklist],
                          nfa[1].table, nfa[1].accepting)
     IN /\ dfa' = [start |-> dfa.start, table |-> d.table, accepting |-> d.accepting,
                   worklist |-> d.worklist]
        /\ dfaPc' = IF d.worklist = <<>> THEN "done" ELSE "loop"
  /\ UNCHANGED <<minVars, file, heap, frags, exprs, nfaCalls, nfaLast, nfa, dfaLast>>

\* dfa.matches(string) with the table built.
DFAMatches(string) ==
  /\ dfaPc = "done"
  /\ LET call == dfaMatches(dfa, dfa.start, string, 1)
     IN dfaLast' = <<[string |-> string, result |-> call.result, error |-> call.error]>>
  /\ UNCHANGED <<minVars, file, heap, frags, exprs, nfaCalls, nfaLast, nfa, dfaPc, dfa>>

NoDFA == [start |-> <<>>, table |-> EmptyMap, accepting |-> {}, worklist |-> <<>>]

Init ==
  /\ file \in {NFA_JS, REGEXP_JS}
  /\ heap = <<>>
  /\ frags = <<>>
  /\ exprs = <<>>
  /\ nfaCalls = 0
  /\ nfaLast = <<>>
  /\ nfa = <<>>
  /\ dfaPc = "idle"
  /\ dfa = NoDFA
  /\ dfaLast = <<>>
  /\ table = EmptyMap
  /\ currentTransitionMap = EmptyMap
  /\ minRuns = 0
  /\ minLast = <<>>

Next ==
  \/ \E c \in Sigma : Char(c, MaxStates)
  \/ E(MaxStates)
  \/ Alt
  \/ Or(MaxStates)
  \/ Rep(MaxStates)
  \/ \E s \in Strings : NFAMatches(s)
  \/ NFAGetTransitionTable
  \/ DFAGetTransitionTable
  \/ DFALoop
  \/ \E s \in Strings : DFAMatches(s)

Spec == Init /\ [][Next]_vars

\* Subset construction on larger fragments over one letter, no graph walk.
InitDFA == Init /\ file = REGEXP_JS


NextDFA ==
  \/ Char(Letter, MaxStatesDFA)
  \/ E(MaxStatesDFA)
  \/ Alt
  \/ Or(MaxStatesDFA)
  \/ Rep(MaxStatesDFA)
  \/ NFAGetTransitionTable
  \/ DFAGetTransitionTable
  \/ DFALoop
  \/ \E s \in Strings : DFAMatches(s)

SpecDFA == InitDFA /\ [][NextDFA]_vars

\* ------------------------------------------------------------------ hand-built graphs
\* States and transitions made with the State API itself, then state.matches.
RECURSIVE Edges(_, _, _)
Edges(h, s, k) ==
  IF s > Len(h) THEN 0
  ELSE IF k > Len(h[s].transitions) THEN Edges(h, s + 1, 1)
  ELSE Len(h[s].transitions[k].to) + Edges(h, s, k + 1)

LetterStrings == SeqsUpTo({Letter}, MaxLen)

GNewState(isAccepting) ==
  /\ nfaCalls = 0
  /\ Len(heap) < MaxNodes
  /\ heap' = Append(heap, NewState(isAccepting))
  /\ UNCHANGED <<minVars, file, frags, exprs, nfaCalls, nfaLast, tableVars>>

GAddTransition(s, symbol, toState) ==
  /\ nfaCalls = 0
  /\ Edges(heap, 1, 1) < MaxEdges
  /\ heap' = addTransition(heap, s, symbol, toState)
  /\ UNCHANGED <<minVars, file, frags, exprs, nfaCalls, nfaLast, tableVars>>

\* state.matches(string) on the state created first: any state of any graph
\* is the first one of the same graph built in another order.
GMatches(s, string) ==
  /\ s \in DOMAIN heap
  /\ nfaCalls < MaxCalls
  /\ LET call == matches(heap, s, string, {})
     IN /\ heap' = call.h
        /\ nfaLast' = <<[state |-> s, string |-> string, result |-> call.r]>>
  /\ nfaCalls' = nfaCalls + 1
  /\ UNCHANGED <<minVars, file, frags, exprs, tableVars>>

NextGraph ==
  \/ \E isAccepting \in BOOLEAN : GNewState(isAccepting)
  \/ \E s, t \in DOMAIN heap : \E symbol \in {Letter, EPSILON} : GAddTransition(s, symbol, t)
  \/ \E string \in LetterStrings : GMatches(1, string)

SpecGraph == InitDFA /\ [][NextGraph]_vars

\* The states some walk from S reaches having consumed string, over symbol
\* edges and epsilon edges in any interleaving.
RECURSIVE WalkEnds(_, _, _)
WalkEnds(h, S, string) ==
  LET closed == EpsilonReach(h, S)
  IN IF string = <<>> THEN closed
     ELSE WalkEnds(h, UNION {Range(getTransitionsOnSymbol(h, s, Head(string))) : s \in closed},
                   Tail(string))

PathExists(h, s, string) == \E t \in WalkEnds(h, {s}, string) : h[t].accepting

OnEpsilonCycle(h, s) ==
  s \in EpsilonReach(h, Range(getTransitionsOnSymbol(h, s, EPSILON)))

\* C3: state.matches(input) is TRUE exactly when a walk from the state over
\* symbol and epsilon edges consumes the whole input and ends in an accepting
\* state; the visited guard rejects no string that has such a walk.
C3_MatchesIffPath ==
  \A i \in DOMAIN nfaLast :
    nfaLast[i].result = PathExists(heap, nfaLast[i].state, nfaLast[i].string)

\* A call from a state on an epsilon cycle, whose own flag does not settle it,
\* accepted a non-empty string.
C3_Witness ==
  \E i \in DOMAIN nfaLast :
    /\ nfaLast[i].result
    /\ nfaLast[i].string # <<>>
    /\ OnEpsilonCycle(heap, nfaLast[i].state)
    /\ getTransitionsOnSymbol(heap, nfaLast[i].state, Head(nfaLast[i].string)) = <<>>

\* ------------------------------------------------------------------ minimization runs
AlphabetSet == {alphabet[k] : k \in DOMAIN alphabet}

Ids == 1..MaxId

\* Every table over some of the ids: each row has, per symbol, a target or none.
Rows == UNION {[D -> Ids] : D \in SUBSET AlphabetSet}

Tables == UNION {[D -> Rows] : D \in (SUBSET Ids) \ {{}}}

\* console.log('Minimized:', minimize(table)), the module's first call.
Minimize ==
  /\ minRuns = 0
  /\ LET run == minimize(table, currentTransitionMap)
     IN /\ minLast' = <<run>>
        /\ currentTransitionMap' = run.ctm
  /\ minRuns' = 1
  /\ UNCHANGED <<fragVars, tableVars, table>>

\* minimize(minimize(...)): a further call, on the table the last call returned.
MinimizeAgain ==
  /\ minRuns >= 1
  /\ minRuns < MaxRuns
  /\ ~minLast[1].error
  /\ LET run == minimize(minLast[1].minimized, currentTransitionMap)
     IN /\ minLast' = <<run>>
        /\ currentTransitionMap' = run.ctm
  /\ minRuns' = minRuns + 1
  /\ UNCHANGED <<fragVars, tableVars, table>>

InitMin ==
  /\ file = REGEXP_JS
  /\ heap = <<>>
  /\ frags = <<>>
  /\ exprs = <<>>
  /\ nfaCalls = 0
  /\ nfaLast = <<>>
  /\ nfa = <<>>
  /\ dfaPc = "idle"
  /\ dfa = NoDFA
  /\ dfaLast = <<>>
  /\ table \in Tables
  /\ currentTransitionMap = EmptyMap
  /\ minRuns = 0
  /\ minLast = <<>>

NextMin ==
  \/ Minimize
  \/ MinimizeAgain

SpecMin == InitMin /\ [][NextMin]_vars

\* A table whose every transition target and every accepting id has a row.
WellFormed(tbl) ==
  /\ Range(accepting) \subseteq DOMAIN tbl
  /\ \A s \in DOMAIN tbl : \A a \in DOMAIN tbl[s] : tbl[s][a] \in DOMAIN tbl

\* Where a state goes on a symbol; 0 is the dead end of a missing transition.
Delta(tbl, s, a) ==
  IF s \in DOMAIN tbl /\ a \in DOMAIN tbl[s] THEN tbl[s][a] ELSE 0

\* The pairs of states (and the dead end) that some input suffix distinguishes.
RECURSIVE Distinguished(_, _)
Distinguished(tbl, D) ==
  LET all == DOMAIN tbl \cup {0}
      more == D \cup {pq \in all \X all :
                        \E a \in AlphabetSet :
                          <<Delta(tbl, pq[1], a), Delta(tbl, pq[2], a)>> \in D}
  IN IF more = D THEN D ELSE Distinguished(tbl, more)

Distinguishable(tbl) ==
  LET all == DOMAIN tbl \cup {0}
  IN Distinguished(tbl, {pq \in all \X all :
                           (pq[1] \in Range(accepting)) # (pq[2] \in Range(accepting))})

NerodeClasses(tbl) ==
  {{q \in DOMAIN tbl : <<p, q>> \notin Distinguishable(tbl)} : p \in DOMAIN tbl}

ClassOf(current, s) == {n \in DOMAIN current : s \in Range(current[n])}

FirstRun == minRuns = 1 /\ WellFormed(table)

\* C5: in the final partition two ids of one class have the same accepting
\* status and, on every symbol, both no transition or targets in one class.
C5_ClassesAgree ==
  FirstRun =>
    \A n \in DOMAIN minLast[1].current :
      \A p, q \in Range(minLast[1].current[n]) :
        /\ (p \in Range(accepting)) = (q \in Range(accepting))
        /\ \A a \in AlphabetSet :
             /\ (a \in DOMAIN table[p]) = (a \in DOMAIN table[q])
             /\ a \in DOMAIN table[p] =>
                  ClassOf(minLast[1].current, table[p][a])
                    = ClassOf(minLast[1].current, table[q][a])

\* C6: the result has one state per Myhill-Nerode class of the given states.
C6_OnePerNerodeClass ==
  FirstRun =>
    /\ ~minLast[1].error
    /\ {Range(minLast[1].current[n]) : n \in DOMAIN minLast[1].current}
         = NerodeClasses(table)
    /\ Len(minLast[1].minimized) = Cardinality(NerodeClasses(table))

\* C6, the first half alone: ids that no suffix distinguishes share a class.
C6_MergesEquivalent ==
  FirstRun =>
    \A p, q \in DOMAIN table :
      <<p, q>> \notin Distinguishable(table)
        => ClassOf(minLast[1].current, p) = ClassOf(minLast[1].current, q)

\* C6, the example: states 2 and 3 of the module's own table collapse.
ExampleTable == (1 :> ("a" :> 2 @@ "b" :> 3)) @@ (2 :> EmptyMap) @@ (3 :> EmptyMap)

C6_Example ==
  (minRuns = 1 /\ table = ExampleTable) =>
    /\ ~minLast[1].error
    /\ minLast[1].minimized = <<("a" :> 2 @@ "b" :> 2), EmptyMap>>

\* C7: minimize on the table minimize returned completes, with as many states.
C7_Idempotent ==
  (minRuns >= 2 /\ WellFormed(table)) =>
    /\ ~minLast[1].error
    /\ Len(minLast[1].minimized) = Cardinality(DOMAIN minLast[1].input)

\* ------------------------------------------------------------------ runs on several tables
\* The tables a later call is given: the rows of `table`, some of them dropped.
SubTables(tbl) == {[s \in D |-> tbl[s]] : D \in (SUBSET DOMAIN tbl) \ {{}}}

\* minimize(T) after an earlier call: currentTransitionMap is the module-level
\* object the earlier call left.
MinimizeOther(T) ==
  /\ minRuns >= 1
  /\ minRuns < MaxRuns
  /\ LET run == minimize(T, currentTransitionMap)
     IN /\ minLast' = <<run>>
        /\ currentTransitionMap' = run.ctm
  /\ minRuns' = minRuns + 1
  /\ UNCHANGED <<fragVars, tableVars, table>>

NextRuns ==
  \/ Minimize
  \/ \E T \in SubTables(table) : MinimizeOther(T)

SpecRuns == InitMin /\ [][NextRuns]_vars

\* C11: a call of minimize ends as the same call does when it is the first
\* one of the module: the same table returned, or the same failure.
C11_RunsIndependent ==
  \A i \in DOMAIN minLast :
    LET first == minimize(minLast[i].input, EmptyMap)
    IN /\ minLast[i].error = first.error
       /\ minLast[i].minimized = first.minimized

\* C11 on tables whose transition targets and accepting ids all have rows.
C11_WellFormedOnly ==
  \A i \in DOMAIN minLast :
    WellFormed(minLast[i].input) =>
      LET first == minimize(minLast[i].input, EmptyMap)
      IN /\ minLast[i].error = first.error
         /\ minLast[i].minimized = first.minimized

\* ------------------------------------------------------------------ malformed tables
\* The returned table holds an entry that is undefined.
HasUndefinedEntry(minimized) ==
  \E idx \in DOMAIN minimized : \E a \in DOMAIN minimized[idx] : minimized[idx][a] = 0

\* C12: minimize on a table with a transition target or an accepting id that
\* has no row ends in an error, never in a returned table.
C12_MalformedFails ==
  (minRuns = 1 /\ ~WellFormed(table)) => minLast[1].error

\* C12, the entries alone: a table minimize returns holds no undefined entry.
C12_NoUndefinedEntry ==
  minRuns = 1 => (minLast[1].error \/ ~HasUndefinedEntry(minLast[1].minimized))

\* ------------------------------------------------------------------ the worklist loop
\* getTransitionTable is synchronous: once entered, the while loop keeps
\* taking passes.  This is WF_vars(DFALoop) written out, with dfaPc = "loop"
\* for ENABLED <<DFALoop>>_vars: a pass asks for nothing else, and it always
\* takes the head off the worklist.
SpecDFAFair == SpecDFA /\ ([]<>(dfaPc # "loop") \/ []<><<DFALoop>>_vars)

\* The start label and every recorded target is a row.
Closed ==
  /\ dfa.start \in DOMAIN dfa.table
  /\ \A l \in DOMAIN dfa.table : \A a \in DOMAIN dfa.table[l] :
       dfa.table[l][a] \in DOMAIN dfa.table

\* C13: subset construction, once begun, ends; it ends with an empty
\* worklist and a closed table, and no matches call meets a label without a row.
C13_TerminatesClosed ==
  /\ (dfaPc = "loop") ~> (dfaPc = "done")
  /\ [](dfaPc = "done" =>
         /\ dfa.worklist = <<>>
         /\ Closed
         /\ \A j \in DOMAIN dfaLast : ~dfaLast[j].error)

\* A finished table of several rows, on which a match followed transitions.
C13_Witness ==
  /\ dfaPc = "done"
  /\ Cardinality(DOMAIN dfa.table) >= 3
  /\ \E l \in DOMAIN dfa.table : l # dfa.start /\ DOMAIN dfa.table[l] # {}
  /\ \E j \in DOMAIN dfaLast : Len(dfaLast[j].string) >= 2 /\ dfaLast[j].result

\* ------------------------------------------------------------------ matches and the graph
\* The graph as the combinators built it: addTransition never leaves a key
\* with no target, so the keys with none are those a lookup created.
Pristine(h) ==
  LET HasTarget(t) == t.to # <<>>
  IN [s \in DOMAIN h |-> [h[s] EXCEPT !.transitions = SelectSeq(@, HasTarget)]]

\* The symbols other than EPSILON on the edges of the graph reachable from s.
EdgeSymbols(h, s) ==
  UNION {{h[q].transitions[k].symbol : k \in DOMAIN h[q].transitions} :
           q \in ReachFrom(h, {s})} \ {EPSILON}

\* C14: the transition table and the accepting ids are those of the graph as
\* built, whatever matches calls came first, and the alphabet is the set of
\* symbols on its edges.
C14_MatchesLeavesGraph ==
  nfa # <<>> =>
    LET asBuilt == Pristine(heap)
        clean == nfaGetTransitionTable(asBuilt, frags[1].in)
    IN /\ nfa[1].table = clean.table
       /\ nfa[1].accepting = clean.accepting
       /\ Range(nfaGetAlphabet(nfa[1].table, 1, <<>>)) = EdgeSymbols(asBuilt, frags[1].in)

\* C14 with no matches call before the table is built.
C14_NoCallBefore ==
  (nfa # <<>> /\ \A s \in DOMAIN nfa[1].h :
                   \A k \in DOMAIN nfa[1].h[s].transitions :
                     nfa[1].h[s].transitions[k].to = <<>>
                       => nfa[1].h[s].transitions[k].symbol = EPSILON)
    => C14_MatchesLeavesGraph

====
